---- MODULE Spec2Model ----
(***************************************************************************)
(* Model of src/forecast.py: the class SimpleTimeSeries (a held series, a  *)
(* seasonal period, a moving-average smoother, a seasonal-factor estimator *)
(* and a forecast projector) and the example run by main().                *)
(*                                                                         *)
(* Python's true division "/" is modelled by exact rational arithmetic: a  *)
(* number produced by a division is a pair <<numerator, denominator>> in   *)
(* lowest terms with a positive denominator.  Rounding of binary floating  *)
(* point is therefore not part of the model.  A raised exception is a      *)
(* result whose kind is the exception's class name.                        *)
(***************************************************************************)
EXTENDS Integers, Sequences, FiniteSets, TLC

VARIABLES data, seasonal_period, ret, calls

vars == <<data, seasonal_period, ret, calls>>

(***************************************************************************)
(* Bounds of the model and constants of the program.                       *)
(***************************************************************************)
\* longest exhaustively enumerated series
MaxLen == 4

\* largest exhaustively enumerated seasonal period
MaxPeriod == 2

\* largest forecast horizon passed to forecast_next_periods
MaxHorizon == 5

\* number of calls made on one object
MaxCalls == 2

\* observation values of the exhaustively enumerated series
Values == {-1, 0, 1}

\* self.seasonal_period = 12
DefaultSeasonalPeriod == 12

\* historical_data of main()
historical_data ==
    << 100, 120, 140, 160, 130, 110,
       105, 125, 145, 165, 135, 115,
       110, 130, 150, 170, 140, 120 >>

\* ts.forecast_next_periods(6) in main()
MainPeriods == 6

(***************************************************************************)
(* Exact arithmetic standing for Python's numbers.                         *)
(***************************************************************************)
Abs(x) == IF x < 0 THEN -x ELSE x

RECURSIVE GCD(_, _)
GCD(a, b) == IF b = 0 THEN a ELSE GCD(b, a % b)

\* n / d for integers n and d # 0, in lowest terms
Rat(n, d) ==
    LET g == GCD(Abs(n), Abs(d))
        sgn == IF d < 0 THEN -1 ELSE 1
    IN  << (sgn * n) \div g, (sgn * d) \div g >>

FromInt(x) == << x, 1 >>

RAdd(a, b) == Rat(a[1] * b[2] + b[1] * a[2], a[2] * b[2])

RSub(a, b) == Rat(a[1] * b[2] - b[1] * a[2], a[2] * b[2])

RMul(a, b) == Rat(a[1] * b[1], a[2] * b[2])

\* a / b for b # 0
RDiv(a, b) == Rat(a[1] * b[2], a[2] * b[1])

\* sum() of a list of integers
RECURSIVE SumInt(_)
SumInt(seq) == IF seq = << >> THEN 0 ELSE Head(seq) + SumInt(Tail(seq))

\* sum() of a list of quotients
RECURSIVE RSum(_)
RSum(seq) == IF seq = << >> THEN FromInt(0) ELSE RAdd(Head(seq), RSum(Tail(seq)))

\* a slice bound as Python resolves it against a list of length n
ClampIndex(i, n) ==
    IF i < 0 THEN (IF i + n < 0 THEN 0 ELSE i + n)
    ELSE IF i > n THEN n ELSE i

\* seq[lo:hi] with Python's 0-based, clamped, negative-from-the-end bounds
PySlice(seq, lo, hi) ==
    SubSeq(seq, ClampIndex(lo, Len(seq)) + 1, ClampIndex(hi, Len(seq)))

(***************************************************************************)
(* Results of a call.                                                      *)
(***************************************************************************)
Ok(v) == [kind |-> "ok", val |-> v]

Raise(e) == [kind |-> e, val |-> << >>]

(***************************************************************************)
(* calculate_moving_average                                                *)
(***************************************************************************)
\* a smoother that drops the "+ 1" of the range and so loses the last window
MovingAverageCount_NoPlusOne(d, window_size) ==
    LET n == Len(d) - window_size IN IF n < 0 THEN 0 ELSE n

\* len(range(len(self.data) - window_size + 1))
MovingAverageCount(d, window_size) ==
    LET n == Len(d) - window_size + 1 IN IF n < 0 THEN 0 ELSE n

\* window = self.data[i:i + window_size]
Window(d, i, window_size) == PySlice(d, i, i + window_size)

calculate_moving_average(d, window_size) ==
    LET cnt == MovingAverageCount(d, window_size)
    IN  IF cnt = 0 THEN Ok(<< >>)
        ELSE IF window_size = 0 THEN Raise("ZeroDivisionError")
        ELSE Ok([j \in 1..cnt |->
                    Rat(SumInt(Window(d, j - 1, window_size)), window_size)])

(***************************************************************************)
(* calculate_seasonal_factors                                              *)
(***************************************************************************)
\* seasonal_averages[k] after the accumulation loop, from index i on
RECURSIVE SeasonalSum(_, _, _, _)
SeasonalSum(d, s, k, i) ==
    IF i >= Len(d) THEN 0
    ELSE (IF i % s = k THEN d[i + 1] ELSE 0) + SeasonalSum(d, s, k, i + 1)

\* seasonal_counts[k] after the accumulation loop, from index i on
RECURSIVE SeasonalCount(_, _, _, _)
SeasonalCount(d, s, k, i) ==
    IF i >= Len(d) THEN 0
    ELSE (IF i % s = k THEN 1 ELSE 0) + SeasonalCount(d, s, k, i + 1)

\* avg / count if count > 0 else 1, for every position of the cycle
RawSeasonalFactors(d, s) ==
    [j \in 1..s |->
        LET avg == SeasonalSum(d, s, j - 1, 0)
            count == SeasonalCount(d, s, j - 1, 0)
        IN  IF count > 0 THEN Rat(avg, count) ELSE FromInt(1)]

\* factor_mean = sum(seasonal_factors) / len(seasonal_factors)
FactorMean(raw) == RDiv(RSum(raw), FromInt(Len(raw)))

\* seasonal_factors = [f / factor_mean for f in seasonal_factors]
Normalize(raw, factor_mean) ==
    IF factor_mean[1] = 0 THEN Raise("ZeroDivisionError")
    ELSE Ok([j \in 1..Len(raw) |-> RDiv(raw[j], factor_mean)])

calculate_seasonal_factors(d, s) ==
    LET raw == RawSeasonalFactors(d, s)
    IN  Normalize(raw, FactorMean(raw))

(***************************************************************************)
(* forecast_next_periods                                                   *)
(***************************************************************************)
\* a guard that asks for one seasonal period of data instead of two
NotEnoughData_OnePeriod(d, s) == Len(d) < s

\* len(self.data) < self.seasonal_period * 2
NotEnoughData(d, s) == Len(d) < s * 2

\* trend_change = (ma[-1] - ma[0]) / len(ma)
TrendChange(ma) == RDiv(RSub(ma[Len(ma)], ma[1]), FromInt(Len(ma)))

\* last_level = sum(self.data[-self.seasonal_period:]) / self.seasonal_period
LastLevel(d, s) == Rat(SumInt(PySlice(d, -s, Len(d))), s)

\* season_index = (len(self.data) + i) % self.seasonal_period
SeasonIndex(d, s, i) == (Len(d) + i) % s

\* the forecast loop: trend * seasonal for i in range(periods)
Project(d, s, periods, last_level, trend_change, seasonal_factors) ==
    [j \in 1..periods |->
        LET i == j - 1
            trend == RAdd(last_level, RMul(trend_change, FromInt(i + 1)))
            seasonal == seasonal_factors[SeasonIndex(d, s, i) + 1]
        IN  RMul(trend, seasonal)]

forecast_next_periods(d, s, periods) ==
    IF NotEnoughData(d, s) THEN Raise("ValueError")
    ELSE
        LET ma == calculate_moving_average(d, s)
        IN  IF ma.kind # "ok" THEN ma
            ELSE
                LET sf == calculate_seasonal_factors(d, s)
                IN  IF sf.kind # "ok" THEN sf
                    ELSE Ok(Project(d, s, periods, LastLevel(d, s),
                                    TrendChange(ma.val), sf.val))

(***************************************************************************)
(* The object and the calls made on it.                                    *)
(***************************************************************************)
\* every series over Values of length 0..n
SeriesUpTo(n) == UNION { [1..k -> Values] : k \in 0..n }

\* series held with the default seasonal period: the example of main(), the
\* example continued to two full cycles, and two flat series of two cycles
YearlySeries ==
    { historical_data,
      historical_data \o SubSeq(historical_data, 1, 6),
      [i \in 1..(2 * DefaultSeasonalPeriod) |-> 0],
      [i \in 1..(2 * DefaultSeasonalPeriod) |-> 7] }

\* window sizes passed to calculate_moving_average
Windows == ((0 - 1)..(MaxLen + 1)) \cup {seasonal_period}

\* horizons passed to forecast_next_periods
Horizons == 0..MaxHorizon

NoCall == [op |-> "none", arg |-> 0, kind |-> "none", val |-> << >>]

Returned(op, arg, r) == [op |-> op, arg |-> arg, kind |-> r.kind, val |-> r.val]

Init ==
    /\ \/ /\ seasonal_period \in 1..MaxPeriod
          /\ data \in SeriesUpTo(MaxLen)
       \/ /\ seasonal_period = DefaultSeasonalPeriod
          /\ data \in YearlySeries
    /\ ret = NoCall
    /\ calls = 0

MovingAverage(window_size) ==
    /\ calls < MaxCalls
    /\ calls' = calls + 1
    /\ ret' = Returned("calculate_moving_average", window_size,
                       calculate_moving_average(data, window_size))
    /\ UNCHANGED <<data, seasonal_period>>

SeasonalFactors ==
    /\ calls < MaxCalls
    /\ calls' = calls + 1
    /\ ret' = Returned("calculate_seasonal_factors", 0,
                       calculate_seasonal_factors(data, seasonal_period))
    /\ UNCHANGED <<data, seasonal_period>>

\* a projector that keeps only the final seasonal period of the series
Forecast_Truncating(periods) ==
    /\ calls < MaxCalls
    /\ calls' = calls + 1
    /\ ret' = Returned("forecast_next_periods", periods,
                       forecast_next_periods(data, seasonal_period, periods))
    /\ data' = PySlice(data, -seasonal_period, Len(data))
    /\ UNCHANGED seasonal_period

Forecast(periods) ==
    /\ calls < MaxCalls
    /\ calls' = calls + 1
    /\ ret' = Returned("forecast_next_periods", periods,
                       forecast_next_periods(data, seasonal_period, periods))
    /\ UNCHANGED <<data, seasonal_period>>

\* main(): a fresh object over historical_data, then forecast_next_periods(6)
main ==
    /\ data = historical_data
    /\ seasonal_period = DefaultSeasonalPeriod
    /\ calls = 0
    /\ calls' = calls + 1
    /\ ret' = Returned("main", MainPeriods,
                       forecast_next_periods(data, seasonal_period, MainPeriods))
    /\ UNCHANGED <<data, seasonal_period>>

Next ==
    \/ \E w \in Windows : MovingAverage(w)
    \/ SeasonalFactors
    \/ \E p \in Horizons : Forecast(p)
    \/ main

Spec == Init /\ [][Next]_vars

(***************************************************************************)
(* Notions used to state the properties.                                   *)
(***************************************************************************)
N == Len(data)

IsForecast == ret.op = "forecast_next_periods"

IsMovingAverage == ret.op = "calculate_moving_average"

IsSeasonalFactors == ret.op = "calculate_seasonal_factors"

\* data[lo] + ... + data[hi], 0-based and inclusive
RECURSIVE SumRange(_, _, _)
SumRange(d, lo, hi) == IF lo > hi THEN 0 ELSE d[lo + 1] + SumRange(d, lo + 1, hi)

\* the mean of the observations at 0-based positions lo..hi
MeanRange(d, lo, hi) == Rat(SumRange(d, lo, hi), hi - lo + 1)

\* the value the documented formula gives for forecast step i
DocumentedForecast(i) ==
    LET s == seasonal_period
        first_ma == MeanRange(data, 0, s - 1)
        last_ma == MeanRange(data, N - s, N - 1)
        trend_change == RDiv(RSub(last_ma, first_ma), FromInt(N - s + 1))
        last_level == MeanRange(data, N - s, N - 1)
        level == RAdd(last_level, RMul(trend_change, FromInt(i + 1)))
        factors == calculate_seasonal_factors(data, s).val
    IN  RMul(level, factors[((N + i) % s) + 1])

AllZero == \A j \in 1..N : data[j] = 0

Flat(c) == \A j \in 1..N : data[j] = c

C2_MainForecastsSixValues ==
    (ret.op = "main") =>
        /\ ret.kind = "ok"
        /\ Len(ret.val) = MainPeriods
        /\ \A i \in 0..(MainPeriods - 1) : ret.val[i + 1] = DocumentedForecast(i)

(***************************************************************************)
(* C3: with at least two seasonal periods of data and periods >= 1,        *)
(* forecast_next_periods returns a sequence of exactly periods values.     *)
(***************************************************************************)
C3_ForecastLength ==
    (IsForecast /\ N >= 2 * seasonal_period /\ ret.arg >= 1) =>
        (ret.kind = "ok" /\ Len(ret.val) = ret.arg)

(***************************************************************************)
(* C4: a series of at least two seasonal periods whose values all equal a  *)
(* constant c is forecast as c at every step.                              *)
(***************************************************************************)
C4_FlatSeriesForecast ==
    \A c \in Values \cup {7} :
        (IsForecast /\ N >= 2 * seasonal_period /\ Flat(c)) =>
            /\ ret.kind = "ok"
            /\ Len(ret.val) = ret.arg
            /\ \A j \in 1..Len(ret.val) : ret.val[j] = FromInt(c)

(***************************************************************************)
(* C5: when every observation is 0, so that every raw seasonal factor is   *)
(* 0, calculate_seasonal_factors returns the neutral vector of s ones.     *)
(***************************************************************************)
C5_ZeroSeriesNeutralFactors ==
    (IsSeasonalFactors /\ N >= seasonal_period /\ AllZero) =>
        /\ ret.kind = "ok"
        /\ ret.val = [j \in 1..seasonal_period |-> FromInt(1)]

(***************************************************************************)
(* C6: whenever the raw per-position averages are not all zero,            *)
(* calculate_seasonal_factors returns s factors that sum to s.             *)
(***************************************************************************)
C6_FactorsSumToPeriod ==
    (/\ IsSeasonalFactors
     /\ \E j \in 1..seasonal_period :
            RawSeasonalFactors(data, seasonal_period)[j] # FromInt(0)) =>
        /\ ret.kind = "ok"
        /\ Len(ret.val) = seasonal_period
        /\ RSum(ret.val) = FromInt(seasonal_period)

(***************************************************************************)
(* C7: calculate_moving_average fails, and returns no sequence, whenever   *)
(* the window is larger than the series or smaller than 1.                 *)
(***************************************************************************)
C7_InvalidWindowFails ==
    (IsMovingAverage /\ (ret.arg > N \/ ret.arg < 1)) => ret.kind # "ok"

(***************************************************************************)
(* C8: for a window w with 1 <= w <= N, calculate_moving_average returns   *)
(* N - w + 1 values, the i-th being the sum of series[i .. i+w-1] divided  *)
(* by w.                                                                   *)
(***************************************************************************)
C8_MovingAverage ==
    (IsMovingAverage /\ 1 <= ret.arg /\ ret.arg <= N) =>
        /\ ret.kind = "ok"
        /\ Len(ret.val) = N - ret.arg + 1
        /\ \A i \in 0..(N - ret.arg) :
              RMul(ret.val[i + 1], FromInt(ret.arg))
                  = FromInt(SumRange(data, i, i + ret.arg - 1))

C8_Witness ==
    /\ IsMovingAverage
    /\ 2 <= ret.arg
    /\ ret.arg < N
    /\ ret.kind = "ok"
    /\ \E i, j \in 1..Len(ret.val) : ret.val[i] # ret.val[j]

C10_ForecastFormula ==
    (IsForecast /\ N >= 2 * seasonal_period) =>
        /\ ret.kind = "ok"
        /\ \A i \in 0..(ret.arg - 1) :
              /\ (N + i) % seasonal_period \in 0..(seasonal_period - 1)
              /\ ret.val[i + 1] = DocumentedForecast(i)

====
